---- MODULE Spec2Model ----
(***************************************************************************)
(* A model of the Docker Compose wrapper (compose.go) and of the input      *)
(* validation of the module generator (modulegen/main.go).                  *)
(*                                                                          *)
(* A Go string is a sequence of atoms: a character where the code looks at  *)
(* characters (identifiers, names, titles), a path component where the code *)
(* works on paths, and a whole token elsewhere.  String concatenation is    *)
(* sequence concatenation, so that the order and the number of the pieces   *)
(* of an assembled value are part of the value.                             *)
(***************************************************************************)
EXTENDS Integers, Sequences, FiniteSets, TLC

VARIABLES
    \* ---- capturingPassThroughWriter on its own (TeeSpec) ----
    tee,          \* the writer under test: [buf, w]; w is what its destination received
    teeCalls,     \* the byte slices passed to Write so far, in call order
    teeRet,       \* what the last Write returned: [n, err]
    teeDstRet,    \* what the destination returned to the last Write: [n, err]
    \* ---- Example.Validate / generate (GenSpec) ----
    example,      \* the Example handed to generate: [Name, TitleName, IsModule]
    genPc,        \* position of generate: [at, i], i the template of the loop
    genErr,       \* the error generate returned
    genFs,        \* the directories and files generate has created so far
    \* ---- LocalDockerCompose and one terminal operation (Spec) ----
    goos,         \* runtime.GOOS
    dc,           \* the LocalDockerCompose struct
    pc,           \* position of the foreground flow
    op,           \* the terminal operation in progress: "Down", "Invoke" or "none"
    args,         \* the args parameter of executeCompose
    call,         \* <<>>, or <<[dir, env, binary, args]>> handed to execute
    cmd,          \* <<>>, or the exec.Cmd of execute: <<[state, Path, Args, Dir, Env, exit]>>
    stdout,       \* <<>>, or the stdout tee of execute: <<writer>>
    stderr,       \* <<>>, or the stderr tee of execute: <<writer>>
    errStdout,    \* the local variable errStdout of execute
    errStderr,    \* the local variable errStderr of execute
    task,         \* the two reader goroutines: stream -> "none", "copying", "done"
    pending,      \* chunks of the process's output not yet read, per stream
    procErr,      \* the error of cmd.Start / cmd.Wait, Nil if none
    result,       \* <<>>, or the ExecError execute returned: <<[Error, Stderr, Stdout]>>
    panicMsg,     \* the message of the panic, <<>> if none
    hist          \* history: what the caller did and what was observed

teeVars == <<tee, teeCalls, teeRet, teeDstRet>>
genVars == <<example, genPc, genErr, genFs>>
dcVars  == <<goos, dc, pc, op, args, call, cmd, stdout, stderr, errStdout,
             errStderr, task, pending, procErr, result, panicMsg, hist>>
vars    == <<teeVars, genVars, dcVars>>

\* the nil error
Nil == "nil"

\* ---------------------------------------------------------------------------
\* Bounds

\* longest byte slice passed to one Write
MaxLen == 2
\* number of Write calls on one writer
MaxWrites == 3

\* ---------------------------------------------------------------------------
\* Helpers on sequences

RECURSIVE Concat(_)
Concat(ss) == IF ss = <<>> THEN <<>> ELSE Head(ss) \o Concat(Tail(ss))

SeqsUpTo(S, n) == UNION {[1..k -> S] : k \in 0..n}

\* ---------------------------------------------------------------------------
\* capturingPassThroughWriter

Bytes01 == {0, 1}
Slices == SeqsUpTo(Bytes01, MaxLen)

\* an I/O error of the destination
ErrIO == "EIO"

\* The results an io.Writer may give for a slice d: the whole slice and no
\* error, or any count up to len(d) with an error.
DestResults(d) ==
    {[n |-> Len(d), err |-> Nil]} \cup {[n |-> k, err |-> ErrIO] : k \in 0..Len(d)}

newCapturingPassThroughWriter(w) == [buf |-> <<>>, w |-> w]

\* bytes.Buffer.Write: appends, never fails
BufferWrite(buf, d) == buf \o d

\* the destination writer: it is handed d and answers r
DestWrite(w, d) == Append(w, d)

WriteSkipsBufferOnError(w, d, r) ==
    [writer |-> [buf |-> IF r.err = Nil THEN BufferWrite(w.buf, d) ELSE w.buf,
                 w   |-> DestWrite(w.w, d)],
     ret    |-> r]

\* (w *capturingPassThroughWriter) Write(d), the destination answering r
Write(w, d, r) ==
    [writer |-> [buf |-> BufferWrite(w.buf, d), w |-> DestWrite(w.w, d)],
     ret    |-> r]

Bytes(w) == w.buf

TeeInit ==
    /\ tee = newCapturingPassThroughWriter(<<>>)
    /\ teeCalls = <<>>
    /\ teeRet = [n |-> 0, err |-> Nil]
    /\ teeDstRet = [n |-> 0, err |-> Nil]

TeeWrite ==
    /\ Len(teeCalls) < MaxWrites
    /\ \E d \in Slices : \E r \in DestResults(d) :
         LET res == Write(tee, d, r) IN
           /\ tee' = res.writer
           /\ teeRet' = res.ret
           /\ teeDstRet' = r
           /\ teeCalls' = Append(teeCalls, d)
    /\ UNCHANGED <<genVars, dcVars>>

\* ---------------------------------------------------------------------------
\* LocalDockerCompose: strings, paths and maps

\* a one-atom string
S(x) == <<x>>

\* strings.ToLower on the characters the identifiers are drawn from
LowerOf == ("M" :> "m") @@ ("Y" :> "y") @@ ("P" :> "p") @@ ("Z" :> "z")
ToLower(s) == [i \in 1..Len(s) |-> IF s[i] \in DOMAIN LowerOf THEN LowerOf[s[i]] ELSE s[i]]

\* A path is the sequence of its components; a leading "/" is the root.
Root == "/"
\* the working directory of the invoking process
Cwd == <<Root, "w">>
IsAbs(p) == Len(p) > 0 /\ p[1] = Root

\* filepath.Clean, lexically: "." is dropped, ".." removes the component
\* before it (and is dropped at the root).
RECURSIVE CleanInto(_, _)
CleanInto(done, rest) ==
    IF rest = <<>> THEN done
    ELSE LET c == Head(rest) IN
         IF c = "." THEN CleanInto(done, Tail(rest))
         ELSE IF c = ".." THEN
              IF Len(done) > 0 /\ done[Len(done)] \notin {Root, ".."}
                 THEN CleanInto(SubSeq(done, 1, Len(done) - 1), Tail(rest))
              ELSE IF Len(done) > 0 /\ done[Len(done)] = Root
                 THEN CleanInto(done, Tail(rest))
              ELSE CleanInto(Append(done, c), Tail(rest))
         ELSE CleanInto(Append(done, c), Tail(rest))
Clean(p) == CleanInto(<<>>, p)

\* filepath.Abs: an absolute path is cleaned, a relative one is joined to the
\* working directory
Abs(p) == IF IsAbs(p) THEN Clean(p) ELSE Clean(Cwd \o p)

\* the directory half of filepath.Split: everything before the last component
SplitDir(p) == IF Len(p) <= 1 THEN p ELSE SubSeq(p, 1, Len(p) - 1)

\* strings.Join
RECURSIVE Join(_, _)
Join(elems, sep) ==
    IF elems = <<>> THEN <<>>
    ELSE IF Len(elems) = 1 THEN elems[1]
    ELSE elems[1] \o sep \o Join(Tail(elems), sep)

EmptyMap == [k \in {} |-> <<>>]
\* for k, v := range over { m[k] = v }
Overlay(m, over) ==
    [k \in DOMAIN m \cup DOMAIN over |-> IF k \in DOMAIN over THEN over[k] ELSE m[k]]

envProjectName == "COMPOSE_PROJECT_NAME"
envComposeFile == "COMPOSE_FILE"

\* os.PathListSeparator
PathListSeparator == IF goos = "windows" THEN ";" ELSE ":"

\* os.Environ() of the invoking process
OsEnviron == ("PATH" :> S("/bin")) @@ (envProjectName :> S("inherited"))

\* ---------------------------------------------------------------------------
\* Inputs

GOOS == {"linux", "windows"}
RelPath == <<".", "testdata", "a.yml">>
AbsPath == <<Root, "etc", "b.yml">>
FilePathLists == {<<>>, <<RelPath>>, <<AbsPath, RelPath>>}
Identifiers == {<<"M", "y", "P">>}
Commands == {<<S("up"), S("-d")>>, <<S("ps")>>}
Environments ==
    { ("FOO" :> S("bar")) @@ (envComposeFile :> S("other.yml")),
      (envProjectName :> S("mine")) }

\* most chunks the external process writes to one stream
MaxChunks == 1

Streams == {"out", "err"}

\* errors
ErrStart == "exec: start failed"
ErrExit == "exit status 1"
ErrClosed == "file already closed"
ErrShortWrite == "short write"

\* ---------------------------------------------------------------------------
\* NewLocalDockerCompose, WithCommand, WithEnv

NewLocalDockerCompose(filePaths, identifier) ==
    [Executable          |-> IF goos = "windows" THEN S("docker-compose.exe")
                                                 ELSE S("docker-compose"),
     ComposeFilePaths    |-> filePaths,
     absComposeFilePaths |-> [i \in 1..Len(filePaths) |-> Abs(filePaths[i])],
     Identifier          |-> ToLower(identifier),
     Cmd                 |-> <<>>,
     Env                 |-> EmptyMap]

NoExec ==
    /\ op = "none" /\ args = <<>> /\ call = <<>> /\ cmd = <<>>
    /\ stdout = <<>> /\ stderr = <<>>
    /\ errStdout = Nil /\ errStderr = Nil
    /\ task = [s \in Streams |-> "none"]
    /\ pending = [s \in Streams |-> 0]
    /\ procErr = Nil /\ result = <<>> /\ panicMsg = <<>>

DcInit ==
    /\ goos \in GOOS
    /\ \E filePaths \in FilePathLists : \E identifier \in Identifiers :
         /\ dc = NewLocalDockerCompose(filePaths, identifier)
         /\ hist = [files |-> filePaths, identifier |-> identifier,
                    cmd |-> <<>>, env |-> EmptyMap, dcAtCall |-> dc,
                    preflight |-> "none", fail |-> "none",
                    prior |-> FALSE, replaced |-> FALSE]
    /\ pc = "idle"
    /\ NoExec

execVars == <<op, args, call, cmd, stdout, stderr, errStdout, errStderr,
              task, pending, procErr, result, panicMsg>>

WithCommand(c) ==
    /\ pc = "idle"
    /\ dc' = [dc EXCEPT !.Cmd = c]
    /\ hist' = [hist EXCEPT !.cmd = c,
                             !.replaced = @ \/ (hist.cmd # <<>> /\ hist.cmd # c)]
    /\ UNCHANGED <<goos, pc, execVars, teeVars, genVars>>

WithEnv(e) ==
    /\ pc = "idle"
    /\ dc' = [dc EXCEPT !.Env = e]
    /\ hist' = [hist EXCEPT !.env = e]
    /\ UNCHANGED <<goos, pc, execVars, teeVars, genVars>>

\* ---------------------------------------------------------------------------
\* Down, Invoke, executeCompose

\* composeFileEnvVariableValue: every path followed by the separator
RECURSIVE ComposeFileValue(_)
ComposeFileValue(abs) ==
    IF abs = <<>> THEN <<>>
    ELSE Head(abs) \o S(PathListSeparator) \o ComposeFileValue(Tail(abs))

getDockerComposeEnvironment(d) ==
    (envProjectName :> d.Identifier) @@
    (envComposeFile :> ComposeFileValue(d.absComposeFilePaths))

ComposeEnvironmentComputedWins(d) == Overlay(d.Env, getDockerComposeEnvironment(d))

\* environment of executeCompose: the computed entries, then dc.Env over them
ComposeEnvironment(d) == Overlay(getDockerComposeEnvironment(d), d.Env)

\* for _, abs := range ... { cmds = append(cmds, "-f", abs) }
RECURSIVE AppendFiles(_, _)
AppendFiles(cmds, abs) ==
    IF abs = <<>> THEN cmds
    ELSE AppendFiles(cmds \o <<S("-f"), Head(abs)>>, Tail(abs))

ComposeArgsCommandFirst(d, a) ==
    a \o (IF Len(d.absComposeFilePaths) > 0
             THEN AppendFiles(<<>>, d.absComposeFilePaths)
             ELSE <<S("-f"), S("docker-compose.yml")>>)

\* cmds of executeCompose for the receiver d and the parameter a
ComposeArgs(d, a) ==
    (IF Len(d.absComposeFilePaths) > 0
        THEN AppendFiles(<<>>, d.absComposeFilePaths)
        ELSE <<S("-f"), S("docker-compose.yml")>>) \o a

\* pwd of executeCompose
ComposeDir(d) ==
    IF Len(d.absComposeFilePaths) > 0 THEN SplitDir(d.absComposeFilePaths[1])
    ELSE S(".")

NotFoundMessage(d) ==
    S("Local Docker Compose not found. Is ") \o d.Executable \o S(" on the PATH?")

\* the message of the panic after a failed execute; the local args of that
\* block is strings.Join(dc.Cmd, " "), whatever the parameter a was
AbnormalExitMessage(d, a, err) ==
    S("Local Docker compose exited abnormally whilst running ") \o d.Executable
      \o S(": [") \o Join(d.Cmd, S(" ")) \o S("]. ") \o S(err)

\* executeCompose(dc, a) is entered for the operation o
Enter(o, a) ==
    /\ pc = "idle"
    /\ op' = o
    /\ args' = a
    /\ pc' = "which"
    /\ hist' = [hist EXCEPT !.dcAtCall = dc, !.preflight = "none", !.fail = "none"]
    /\ UNCHANGED <<dc, call, cmd, stdout, stderr, errStdout, errStderr,
                   task, pending, procErr, result, panicMsg,
                   teeVars, genVars>>

DownRunsStoredCommand ==
    /\ Enter("Down", dc.Cmd)
    /\ UNCHANGED goos

Down ==
    /\ Enter("Down", <<S("down")>>)
    /\ UNCHANGED goos

Invoke ==
    /\ Enter("Invoke", dc.Cmd)
    /\ UNCHANGED goos

PreflightFailsAndGoesOn ==
    /\ pc = "which"
    /\ call' = <<[dir    |-> ComposeDir(dc),
                  env    |-> ComposeEnvironment(dc),
                  binary |-> dc.Executable,
                  args   |-> ComposeArgs(dc, args)]>>
    /\ pc' = "create"
    /\ hist' = [hist EXCEPT !.preflight = "missing"]
    /\ UNCHANGED <<goos, dc, op, args, cmd, stdout, stderr, errStdout,
                   errStderr, task, pending, procErr, result, panicMsg,
                   teeVars, genVars>>

\* which(dc.Executable) != nil: panic
PreflightFails ==
    /\ pc = "which"
    /\ pc' = "panicked"
    /\ panicMsg' = NotFoundMessage(dc)
    /\ hist' = [hist EXCEPT !.preflight = "missing"]
    /\ UNCHANGED <<goos, dc, op, args, call, cmd, stdout, stderr, errStdout,
                   errStderr, task, pending, procErr, result,
                   teeVars, genVars>>

\* which(dc.Executable) == nil: assemble environment, cmds and pwd, call execute
PreflightPasses ==
    /\ pc = "which"
    /\ call' = <<[dir    |-> ComposeDir(dc),
                  env    |-> ComposeEnvironment(dc),
                  binary |-> dc.Executable,
                  args   |-> ComposeArgs(dc, args)]>>
    /\ pc' = "create"
    /\ hist' = [hist EXCEPT !.preflight = "found"]
    /\ UNCHANGED <<goos, dc, op, args, cmd, stdout, stderr, errStdout,
                   errStderr, task, pending, procErr, result, panicMsg,
                   teeVars, genVars>>

\* ---------------------------------------------------------------------------
\* execute

\* exec.Command, cmd.Dir, cmd.Env, the two pipes and the two tees
ExecuteCreate ==
    /\ pc = "create"
    /\ cmd' = <<[state |-> "created",
                 Path  |-> call[1].binary,
                 Args  |-> call[1].args,
                 Dir   |-> call[1].dir,
                 Env   |-> Overlay(OsEnviron, call[1].env),
                 exit  |-> 0]>>
    /\ stdout' = <<newCapturingPassThroughWriter(<<>>)>>
    /\ stderr' = <<newCapturingPassThroughWriter(<<>>)>>
    /\ errStdout' = Nil
    /\ errStderr' = Nil
    /\ pc' = "start"
    /\ UNCHANGED <<goos, dc, op, args, call, task, pending, procErr,
                   result, panicMsg, hist, teeVars, genVars>>

StartFailsAfterSpawn ==
    /\ pc = "start"
    /\ procErr' = ErrStart
    /\ task' = [s \in Streams |-> "copying"]
    /\ result' = <<[Error |-> ErrStart, Stderr |-> errStderr, Stdout |-> errStdout]>>
    /\ pc' = "executed"
    /\ hist' = [hist EXCEPT !.fail = "start"]
    /\ UNCHANGED <<goos, dc, op, args, call, cmd, stdout, stderr, errStdout,
                   errStderr, pending, panicMsg, teeVars, genVars>>

\* cmd.Start() fails: return ExecError{err, errStderr, errStdout}
StartFails ==
    /\ pc = "start"
    /\ procErr' = ErrStart
    /\ result' = <<[Error |-> ErrStart, Stderr |-> errStderr, Stdout |-> errStdout]>>
    /\ pc' = "executed"
    /\ hist' = [hist EXCEPT !.fail = "start"]
    /\ UNCHANGED <<goos, dc, op, args, call, cmd, stdout, stderr, errStdout,
                   errStderr, task, pending, panicMsg, teeVars, genVars>>

\* cmd.Start() succeeds; the process will write pending[s] chunks to stream s
StartSucceeds ==
    /\ pc = "start"
    /\ cmd' = <<[cmd[1] EXCEPT !.state = "running"]>>
    /\ pending' \in [Streams -> 0..MaxChunks]
    /\ pc' = "goStdout"
    /\ UNCHANGED <<goos, dc, op, args, call, stdout, stderr, errStdout,
                   errStderr, task, procErr, result, panicMsg, hist,
                   teeVars, genVars>>

\* go func() { _, errStdout = io.Copy(stdout, stdoutIn) }()
GoStdout ==
    /\ pc = "goStdout"
    /\ task' = [task EXCEPT !["out"] = "copying"]
    /\ pc' = "goStderr"
    /\ UNCHANGED <<goos, dc, op, args, call, cmd, stdout, stderr, errStdout,
                   errStderr, pending, procErr, result, panicMsg, hist,
                   teeVars, genVars>>

\* go func() { _, errStderr = io.Copy(stderr, stderrIn) }()
GoStderr ==
    /\ pc = "goStderr"
    /\ task' = [task EXCEPT !["err"] = "copying"]
    /\ pc' = "wait"
    /\ UNCHANGED <<goos, dc, op, args, call, cmd, stdout, stderr, errStdout,
                   errStderr, pending, procErr, result, panicMsg, hist,
                   teeVars, genVars>>

\* the external process ends, with exit status 0 or 1
ProcessExits ==
    /\ cmd # <<>>
    /\ cmd[1].state = "running"
    /\ \E status \in {0, 1} :
         cmd' = <<[cmd[1] EXCEPT !.state = "exited", !.exit = status]>>
    /\ UNCHANGED <<goos, dc, pc, op, args, call, stdout, stderr, errStdout,
                   errStderr, task, pending, procErr, result, panicMsg,
                   hist, teeVars, genVars>>

\* err = cmd.Wait(): returns once the process has ended, closes the read ends
\* of both pipes, and reports a non-zero exit status as an error
Wait ==
    /\ pc = "wait"
    /\ cmd[1].state = "exited"
    /\ procErr' = IF cmd[1].exit = 0 THEN Nil ELSE ErrExit
    /\ cmd' = <<[cmd[1] EXCEPT !.state = "waited"]>>
    /\ hist' = [hist EXCEPT !.fail = IF cmd[1].exit = 0 THEN "none" ELSE "wait"]
    /\ pc' = "return"
    /\ UNCHANGED <<goos, dc, op, args, call, stdout, stderr, errStdout,
                   errStderr, task, pending, result, panicMsg,
                   teeVars, genVars>>

\* return ExecError{err, errStderr, errStdout}: the two variables are read as
\* they are now, whether or not the goroutine that assigns them has done so
Return ==
    /\ pc = "return"
    /\ result' = <<[Error |-> procErr, Stderr |-> errStderr, Stdout |-> errStdout]>>
    /\ pc' = "executed"
    /\ UNCHANGED <<goos, dc, op, args, call, cmd, stdout, stderr, errStdout,
                   errStderr, task, pending, procErr, panicMsg, hist,
                   teeVars, genVars>>

\* ---------------------------------------------------------------------------
\* The two reader goroutines of execute: io.Copy(tee, pipe)

TeeOf(s) == IF s = "out" THEN stdout[1] ELSE stderr[1]

SetTee(s, w) ==
    IF s = "out" THEN stdout' = <<w>> /\ UNCHANGED stderr
                 ELSE stderr' = <<w>> /\ UNCHANGED stdout

\* how io.Copy goes on after Write returned r for a chunk d
AfterWrite(d, r) ==
    IF r.err # Nil THEN r.err
    ELSE IF r.n # Len(d) THEN ErrShortWrite
    ELSE Nil

\* io.Copy has returned e: the goroutine assigns it to errStdout / errStderr
\* and ends
Finish(s, e) ==
    /\ IF s = "out" THEN errStdout' = e /\ UNCHANGED errStderr
                    ELSE errStderr' = e /\ UNCHANGED errStdout
    /\ task' = [task EXCEPT ![s] = "done"]

\* one round of io.Copy: a chunk is read from the pipe and written to the tee
CopyChunk(s) ==
    /\ task[s] = "copying"
    /\ cmd[1].state # "waited"
    /\ pending[s] > 0
    /\ LET d == <<pending[s]>> IN
       \E r \in DestResults(d) :
         LET res == Write(TeeOf(s), d, r) IN
           /\ SetTee(s, res.writer)
           /\ IF AfterWrite(d, res.ret) = Nil
                 THEN UNCHANGED <<task, errStdout, errStderr>>
                 ELSE Finish(s, AfterWrite(d, res.ret))
    /\ pending' = [pending EXCEPT ![s] = @ - 1]
    /\ UNCHANGED <<goos, dc, pc, op, args, call, cmd, procErr, result, panicMsg,
                   hist, teeVars, genVars>>

\* the pipe is drained and the process has ended: io.Copy returns nil
CopyEOF(s) ==
    /\ task[s] = "copying"
    /\ cmd[1].state = "exited"
    /\ pending[s] = 0
    /\ Finish(s, Nil)
    /\ UNCHANGED <<goos, dc, pc, op, args, call, cmd, stdout, stderr, pending,
                   procErr, result, panicMsg, hist, teeVars, genVars>>

\* cmd.Wait has closed the read end: the read fails and io.Copy returns the error
CopyClosed(s) ==
    /\ task[s] = "copying"
    /\ cmd[1].state = "waited"
    /\ Finish(s, ErrClosed)
    /\ UNCHANGED <<goos, dc, pc, op, args, call, cmd, stdout, stderr, pending,
                   procErr, result, panicMsg, hist, teeVars, genVars>>

\* ---------------------------------------------------------------------------
\* executeCompose after execute returned

\* execErr.Error != nil: panic
ComposePanics ==
    /\ pc = "executed"
    /\ result[1].Error # Nil
    /\ panicMsg' = AbnormalExitMessage(dc, args, result[1].Error)
    /\ pc' = "panicked"
    /\ UNCHANGED <<goos, dc, op, args, call, cmd, stdout, stderr, errStdout,
                   errStderr, task, pending, procErr, result, hist,
                   teeVars, genVars>>

ComposeReturnsAnyResult ==
    /\ pc = "executed"
    /\ pc' = "returned"
    /\ UNCHANGED <<goos, dc, op, args, call, cmd, stdout, stderr, errStdout,
                   errStderr, task, pending, procErr, result, panicMsg,
                   hist, teeVars, genVars>>

\* return execErr
ComposeReturns ==
    /\ pc = "executed"
    /\ result[1].Error = Nil
    /\ pc' = "returned"
    /\ UNCHANGED <<goos, dc, op, args, call, cmd, stdout, stderr, errStdout,
                   errStderr, task, pending, procErr, result, panicMsg,
                   hist, teeVars, genVars>>

\* The caller has the result, or has recovered from the panic, and goes on
\* with the same driver.  The locals of the finished execute, and whatever its
\* goroutines still do with them, are out of everyone's reach from here on.
CallerContinues ==
    /\ pc \in {"returned", "panicked"}
    /\ pc' = "idle"
    /\ op' = "none" /\ args' = <<>> /\ call' = <<>> /\ cmd' = <<>>
    /\ stdout' = <<>> /\ stderr' = <<>>
    /\ errStdout' = Nil /\ errStderr' = Nil
    /\ task' = [s \in Streams |-> "none"]
    /\ pending' = [s \in Streams |-> 0]
    /\ procErr' = Nil /\ result' = <<>> /\ panicMsg' = <<>>
    /\ hist' = [hist EXCEPT !.prior = TRUE]
    /\ UNCHANGED <<goos, dc, teeVars, genVars>>

\* ---------------------------------------------------------------------------
\* modulegen: Example.Validate and generate

\* longest name and title
MaxName == 2

Letters == {"a", "Z"}
Digits == {"1"}
NameChars == Letters \cup Digits \cup {"-"}
Names == SeqsUpTo(NameChars, MaxName)

templates == <<"docs_example.md", "example_test.go", "example.go", "go.mod", "Makefile">>

\* regexp ^[A-Za-z][A-Za-z0-9]*$
MatchString(s) ==
    /\ Len(s) >= 1
    /\ s[1] \in Letters
    /\ \A i \in 2..Len(s) : s[i] \in Letters \cup Digits

ErrInvalidName == "invalid name"
ErrInvalidTitle == "invalid title"
ErrGenerate == "generate failed"

\* (e *Example) Validate
Validate(e) ==
    IF ~MatchString(e.Name) THEN ErrInvalidName
    ELSE IF ~MatchString(e.TitleName) THEN ErrInvalidTitle
    ELSE Nil

\* (e *Example) Lower
Lower(e) == ToLower(e.Name)

\* (e *Example) ParentDir
ParentDir(e) == IF e.IsModule THEN "modules" ELSE "examples"

\* the directory of the example and the place of the file of one template
ExampleDir(e) == <<"dir", ParentDir(e), Lower(e), "">>
ExampleFile(e, tmpl) ==
    IF tmpl = "docs_example.md" THEN <<"file", "docs/" \o ParentDir(e), Lower(e), ".md">>
    ELSE <<"file", ParentDir(e), Lower(e), tmpl>>

GenInit ==
    /\ example \in [Name : Names, TitleName : Names, IsModule : BOOLEAN]
    /\ genPc = [at |-> "validate", i |-> 0]
    /\ genErr = Nil
    /\ genFs = {}

GenDone(err) ==
    /\ genErr' = err
    /\ genPc' = [at |-> "done", i |-> genPc.i]

\* if err := example.Validate(); err != nil { return err }
GenValidate ==
    /\ genPc.at = "validate"
    /\ IF Validate(example) # Nil
          THEN GenDone(Validate(example))
          ELSE genPc' = [at |-> "mkdir", i |-> 0] /\ UNCHANGED genErr
    /\ UNCHANGED <<example, genFs, teeVars, dcVars>>

\* os.MkdirAll of the example directory
GenMkdir ==
    /\ genPc.at = "mkdir"
    /\ \/ GenDone(ErrGenerate) /\ UNCHANGED genFs
       \/ /\ genFs' = genFs \cup {ExampleDir(example)}
          /\ genPc' = [at |-> "template", i |-> 1]
          /\ UNCHANGED genErr
    /\ UNCHANGED <<example, teeVars, dcVars>>

\* one round of the loop over the templates: parse, MkdirAll, Create, execute
GenTemplate ==
    /\ genPc.at = "template"
    /\ genPc.i <= Len(templates)
    /\ \/ GenDone(ErrGenerate) /\ UNCHANGED genFs
       \/ /\ genFs' = genFs \cup {ExampleFile(example, templates[genPc.i])}
          /\ \/ GenDone(ErrGenerate)
             \/ /\ genPc' = [at |-> IF genPc.i = Len(templates) THEN "config"
                                                              ELSE "template",
                             i  |-> genPc.i + 1]
                /\ UNCHANGED genErr
    /\ UNCHANGED <<example, teeVars, dcVars>>

\* generateWorkFlow, generateMkdocs, generateDependabotUpdates: the first error
\* is returned, nil if there is none
GenConfig ==
    /\ genPc.at = "config"
    /\ \E err \in {Nil, ErrGenerate} : GenDone(err)
    /\ UNCHANGED <<example, genFs, teeVars, dcVars>>

GenNext == GenValidate \/ GenMkdir \/ GenTemplate \/ GenConfig

\* ---------------------------------------------------------------------------
\* Specifications

TeeIdle ==
    /\ tee = newCapturingPassThroughWriter(<<>>)
    /\ teeCalls = <<>>
    /\ teeRet = [n |-> 0, err |-> Nil]
    /\ teeDstRet = [n |-> 0, err |-> Nil]

GenIdle ==
    /\ example = [Name |-> <<>>, TitleName |-> <<>>, IsModule |-> FALSE]
    /\ genPc = [at |-> "none", i |-> 0] /\ genErr = Nil /\ genFs = {}

DcIdle ==
    /\ goos = "linux"
    /\ dc = NewLocalDockerCompose(<<>>, <<>>)
    /\ hist = [files |-> <<>>, identifier |-> <<>>, cmd |-> <<>>, env |-> EmptyMap,
               dcAtCall |-> dc, preflight |-> "none", fail |-> "none",
               prior |-> FALSE, replaced |-> FALSE]
    /\ pc = "idle"
    /\ NoExec

Init == DcInit /\ TeeIdle /\ GenIdle

Next ==
    \/ \E c \in Commands : WithCommand(c)
    \/ \E e \in Environments : WithEnv(e)
    \/ Down
    \/ Invoke
    \/ PreflightFails
    \/ PreflightPasses
    \/ ExecuteCreate
    \/ StartFails
    \/ StartSucceeds
    \/ GoStdout
    \/ GoStderr
    \/ ProcessExits
    \/ Wait
    \/ Return
    \/ \E s \in Streams : CopyChunk(s)
    \/ \E s \in Streams : CopyEOF(s)
    \/ \E s \in Streams : CopyClosed(s)
    \/ ComposePanics
    \/ ComposeReturns
    \/ CallerContinues

Spec == Init /\ [][Next]_vars

TeeSpecInit == TeeInit /\ GenIdle /\ DcIdle

TeeSpec == TeeSpecInit /\ [][TeeWrite]_vars

GenSpecInit == GenInit /\ TeeIdle /\ DcIdle

GenSpec == GenSpecInit /\ [][GenNext]_vars

\* ---------------------------------------------------------------------------
\* Properties

\* the terminal operation in progress got through the preflight check
Called == call # <<>>

\* the -f pairs a driver built from the list files is to pass: one pair per
\* file, in order, or the single fallback pair
FilePairs(files) ==
    IF Len(files) = 0 THEN <<S("docker-compose.yml")>>
    ELSE [i \in 1..Len(files) |-> Abs(files[i])]

\* a is the -f pairs of files followed by the tokens, and nothing else
IsArgumentList(a, files, tokens) ==
    LET f == FilePairs(files) IN
    /\ Len(a) = 2 * Len(f) + Len(tokens)
    /\ \A i \in 1..Len(f) : a[2 * i - 1] = S("-f") /\ a[2 * i] = f[i]
    /\ \A j \in 1..Len(tokens) : a[2 * Len(f) + j] = tokens[j]

\* env is the two computed entries overridden by the overlay
IsEnvironment(env, files, identifier, overlay) ==
    /\ DOMAIN env = {envProjectName, envComposeFile} \cup DOMAIN overlay
    /\ \A k \in DOMAIN overlay : env[k] = overlay[k]
    /\ envProjectName \notin DOMAIN overlay =>
         env[envProjectName] = ToLower(identifier)
    /\ envComposeFile \notin DOMAIN overlay =>
         env[envComposeFile] =
           Concat([i \in 1..Len(files) |-> Abs(files[i]) \o S(PathListSeparator)])

\* C1: after any sequence of Write calls, Bytes() is the concatenation of the
\* slices written, in call order, the destination has received the same
\* slices in the same order, and the last Write returned what the destination
\* returned, whether or not the destination failed or wrote short.
C1_TeeCapturesAndForwards ==
    /\ Bytes(tee) = Concat(teeCalls)
    /\ tee.w = teeCalls
    /\ teeRet = teeDstRet

\* C1 witness: several writes, the last one short and failing at the
\* destination, and its bytes in the buffer all the same
C1_Witness ==
    /\ Len(teeCalls) >= 2
    /\ Len(teeCalls[Len(teeCalls)]) = 2
    /\ teeRet.err # Nil
    /\ teeRet.n < 2
    /\ Len(Bytes(tee)) > Len(teeCalls[Len(teeCalls)])

\* C2: the argument list handed to the external binary is one pair
\* -f <absolute path> per compose file of the construction, in construction
\* order (the pair -f docker-compose.yml if there is none), followed by the
\* command tokens of the operation, with nothing before, between or after.
C2_ArgumentList ==
    /\ Called => /\ IsArgumentList(call[1].args, hist.files, args)
                 /\ \A i \in 1..Len(hist.files) : IsAbs(call[1].args[2 * i])
    /\ cmd # <<>> => cmd[1].Args = call[1].args /\ cmd[1].Path = dc.Executable

\* C2 witness: Invoke with two compose files and a two-token command has
\* created the command
C2_Witness ==
    /\ cmd # <<>>
    /\ op = "Invoke"
    /\ Len(hist.files) = 2
    /\ Len(args) = 2
    /\ Len(cmd[1].Args) = 6

\* C3: the environment handed to the process runner is COMPOSE_PROJECT_NAME =
\* the lower-cased identifier and COMPOSE_FILE = every absolute path followed
\* by the path-list separator, overridden by the configured overlay: an
\* overlay key has the overlay's value, every other key its computed value.
C3_Environment ==
    Called => IsEnvironment(call[1].env, hist.files, hist.identifier, hist.env)

\* C3 witness: the overlay overrides the project name, and the file list of
\* two files keeps its computed value
C3_Witness ==
    /\ Called
    /\ Len(hist.files) = 2
    /\ envProjectName \in DOMAIN hist.env
    /\ call[1].env[envProjectName] = S("mine")
    /\ Len(call[1].env[envComposeFile]) > Len(Abs(hist.files[1])) + Len(Abs(hist.files[2]))

NothingCreated ==
    /\ call = <<>> /\ cmd = <<>> /\ stdout = <<>> /\ stderr = <<>>
    /\ \A s \in Streams : task[s] = "none"
    /\ result = <<>>

\* C4: the preflight check comes before the command, the tees and the reader
\* tasks, and an operation whose preflight check failed has halted with none
\* of them created.
C4_PreflightFirst ==
    /\ hist.preflight = "missing" =>
         /\ pc \in {"panicked", "idle"}
         /\ pc = "panicked" => panicMsg = NotFoundMessage(dc)
         /\ NothingCreated
    /\ ~NothingCreated => hist.preflight = "found"

\* C4 witness: an operation has halted on a failed preflight check
C4_Witness ==
    /\ pc = "panicked"
    /\ hist.preflight = "missing"
    /\ op \in {"Down", "Invoke"}

\* C5: after a failed start, execute has returned the start error in Error
\* with Stdout and Stderr nil, and no reader task exists.
C5_StartFailure ==
    (hist.fail = "start" /\ pc # "idle") =>
        /\ result = <<[Error |-> ErrStart, Stderr |-> Nil, Stdout |-> Nil]>>
        /\ \A s \in Streams : task[s] = "none"
        /\ errStdout = Nil /\ errStderr = Nil

\* C5 witness: execute has returned from a failed start
C5_Witness ==
    /\ pc = "executed"
    /\ hist.fail = "start"
    /\ cmd # <<>> /\ cmd[1].state = "created"

\* execute has returned from a process that started
ReturnedFromStarted ==
    /\ pc \in {"executed", "returned", "panicked"}
    /\ result # <<>>
    /\ hist.preflight = "found"
    /\ hist.fail # "start"

\* C6: when execute returns from a process that started, both reader tasks
\* have finished, and the Stdout and Stderr fields of the result are the
\* errors with which the two copies ended.
C6_CopyErrorsReported ==
    ReturnedFromStarted =>
        /\ \A s \in Streams : task[s] = "done"
        /\ result[1].Stdout = errStdout
        /\ result[1].Stderr = errStderr

\* C7: execute never halts: a start or wait failure comes back as a result
\* with the error in Error.  Down and Invoke return normally only a result
\* whose Error is nil, and a halt is either the failed preflight check or a
\* failure that execute returned.
C7_Escalation ==
    /\ (hist.fail # "none" /\ pc \in {"executed", "panicked"}) =>
          /\ result # <<>>
          /\ result[1].Error # Nil
          /\ result[1].Error = procErr
    /\ pc = "returned" =>
          /\ result[1].Error = Nil
          /\ hist.fail = "none"
          /\ panicMsg = <<>>
    /\ pc = "panicked" =>
          \/ hist.preflight = "missing"
          \/ hist.fail # "none" /\ result # <<>> /\ panicMsg # <<>>
    /\ (pc = "executed" /\ hist.fail # "none") => ~ENABLED ComposeReturns

\* C7 witness: a wait failure that execute returned has ended in a halt
C7_Witness ==
    /\ pc = "panicked"
    /\ hist.fail = "wait"
    /\ result[1].Error = ErrExit

\* C8: whatever was called before, the stored command and overlay are the
\* ones configured last, the identifier and the absolute paths are those of
\* the construction, a terminal operation leaves all of them alone, Invoke
\* passes the stored command and Down the token down, both with the stored
\* overlay.
C8_OnlyLastConfiguration ==
    /\ dc.Cmd = hist.cmd
    /\ dc.Env = hist.env
    /\ dc.Identifier = ToLower(hist.identifier)
    /\ dc.ComposeFilePaths = hist.files
    /\ dc.absComposeFilePaths = [i \in 1..Len(hist.files) |-> Abs(hist.files[i])]
    /\ pc # "idle" => dc = hist.dcAtCall
    /\ Called =>
         /\ IsArgumentList(call[1].args, hist.files,
                           IF op = "Invoke" THEN hist.cmd ELSE <<S("down")>>)
         /\ IsEnvironment(call[1].env, hist.files, hist.identifier, hist.env)

\* C8 witness: after an earlier terminal operation and a command that
\* replaced another, Down runs with a command and an overlay stored
C8_Witness ==
    /\ Called
    /\ op = "Down"
    /\ hist.prior
    /\ hist.replaced
    /\ dc.Cmd # <<>>
    /\ DOMAIN dc.Env # {}

\* generate has decided on the Example
Validated == genPc.at \notin {"none", "validate"}
Rejected == genErr \in {ErrInvalidName, ErrInvalidTitle}

\* C9: generate rejects an Example exactly when its name, or its title if it
\* has one, does not match ^[A-Za-z][A-Za-z0-9]*$, so an empty title is
\* accepted; and a rejected Example leaves no directory or file behind.
C9_TitleOptional ==
    Validated =>
        /\ Rejected <=> ~(/\ MatchString(example.Name)
                          /\ example.TitleName = <<>> \/ MatchString(example.TitleName))
        /\ Rejected => genFs = {}

\* C10: the message of the halt after a failed execute lists the command
\* tokens that were passed to the external binary: the stored command for
\* Invoke, down for Down.
C10_HaltMessageListsPassedCommand ==
    (pc = "panicked" /\ hist.preflight = "found") =>
        panicMsg = S("Local Docker compose exited abnormally whilst running ")
                     \o dc.Executable \o S(": [") \o Join(args, S(" "))
                     \o S("]. ") \o S(result[1].Error)

====
